---- MODULE Spec2Model ----
(***************************************************************************)
(* Resumable chunked upload server (src/public/script.js, lines 174-419):  *)
(* /upload/init, /upload/chunk, /upload/status, /upload/complete, /files.  *)
(*                                                                         *)
(* Node runs every route handler to completion on one thread, so a handler *)
(* body made of synchronous fs calls is one atomic step.  What interleaves *)
(* is: multer's receipt of a chunk's temporary file (before the handler),  *)
(* the handlers themselves, and the steps of the background assembly that  *)
(* /upload/complete starts and does not await.                             *)
(*                                                                         *)
(* The manifest-less /upload-chunk of src/server.js is modelled at the end *)
(* of the module, as ServerSpec over the same directories.                 *)
(***************************************************************************)
EXTENDS Integers, Sequences, FiniteSets, TLC

\* ------------------------------------------------------------------ bounds
MaxTime == 1        \* Date.now() takes the values 0..MaxTime
RandRange == 2      \* Math.floor(Math.random() * 10000) takes 0..RandRange-1
MaxSessions == 2    \* accepted /upload/init calls
MaxChunkReqs == 2   \* /upload/chunk requests received
MaxTotal == 2       \* largest totalChunks a client declares

\* ------------------------------------------------------------ text values
\* Strings the code takes apart are sequences of one-character strings.
Digits == <<"0", "1", "2", "3", "4", "5", "6", "7", "8", "9">>

IsDigit(c) == \E d \in 1..10 : Digits[d] = c

DigitVal(c) == (CHOOSE d \in 1..10 : Digits[d] = c) - 1

NaN == "NaN"

\* String(n) for an integer n, as FormData.append and JSON.stringify render it.
RECURSIVE NatToString(_)
NatToString(n) ==
    IF n < 10 THEN <<Digits[n + 1]>>
    ELSE NatToString(n \div 10) \o <<Digits[(n % 10) + 1]>>

NumToString(n) == IF n < 0 THEN <<"-">> \o NatToString(0 - n) ELSE NatToString(n)

\* The longest prefix of s made of digits.
RECURSIVE DigitPrefix(_)
DigitPrefix(s) ==
    IF s = <<>> \/ ~IsDigit(Head(s)) THEN <<>>
    ELSE <<Head(s)>> \o DigitPrefix(Tail(s))

RECURSIVE DigitsValue(_, _)
DigitsValue(s, acc) ==
    IF s = <<>> THEN acc ELSE DigitsValue(Tail(s), acc * 10 + DigitVal(Head(s)))

\* parseInt(s): an optional sign, then the leading digits; NaN without any.
parseInt(s) ==
    LET neg  == s # <<>> /\ Head(s) = "-"
        body == IF s # <<>> /\ Head(s) \in {"-", "+"} THEN Tail(s) ELSE s
        ds   == DigitPrefix(body)
    IN  IF ds = <<>> THEN NaN
        ELSE IF neg THEN 0 - DigitsValue(ds, 0) ELSE DigitsValue(ds, 0)

\* String.prototype.toLowerCase on the letters file names here use.
LowerChar(c) ==
    CASE c = "M" -> "m"
      [] c = "P" -> "p"
      [] c = "D" -> "d"
      [] c = "F" -> "f"
      [] OTHER   -> c

toLowerCase(s) == [i \in 1..Len(s) |-> LowerChar(s[i])]

\* path.extname: from the last "." on, empty when there is none or when the
\* only "." is the first character.
extname(name) ==
    LET dots == {i \in 1..Len(name) : name[i] = "."}
    IN  IF dots = {} THEN <<>>
        ELSE LET last == CHOOSE i \in dots : \A j \in dots : j <= i
             IN  IF last = 1 THEN <<>> ELSE SubSeq(name, last, Len(name))

imageExts ==
    { <<".", "j", "p", "g">>, <<".", "j", "p", "e", "g">>, <<".", "p", "n", "g">>,
      <<".", "g", "i", "f">>, <<".", "b", "m", "p">>, <<".", "w", "e", "b", "p">> }

videoExts ==
    { <<".", "m", "p", "4">>, <<".", "a", "v", "i">>, <<".", "m", "o", "v">>,
      <<".", "m", "k", "v">>, <<".", "w", "e", "b", "m">> }

docExts ==
    { <<".", "p", "d", "f">>, <<".", "d", "o", "c">>, <<".", "d", "o", "c", "x">>,
      <<".", "x", "l", "s">>, <<".", "x", "l", "s", "x">>, <<".", "t", "x", "t">>,
      <<".", "p", "p", "t">>, <<".", "p", "p", "t", "x">> }

categoryForExt(ext) ==
    LET e == toLowerCase(ext)
    IN  IF e \in imageExts THEN "images"
        ELSE IF e \in videoExts THEN "videos"
        ELSE IF e \in docExts THEN "docs"
        ELSE "others"

CATEGORIES == {"images", "videos", "docs", "others"}

\* ------------------------------------------------------------------ inputs
\* "r.pdf" and "c.MP4"; the empty name is what a request without one carries.
FileNameInputs == { <<>>, <<"r", ".", "p", "d", "f">>, <<"c", ".", "M", "P", "4">> }

\* totalChunks as the JSON number of the request body; a client can send a
\* negative one.
TotalChunksInputs == (0 - 1)..MaxTotal

\* chunkIndex as the text of the multipart field: the way the client's
\* FormData.append('chunkIndex', i) renders the number i, and "01", a text
\* another client can send for the number 1.
ChunkIndexInputs == {NumToString(n) : n \in 0..MaxTotal} \cup { <<"0", "1">> }

Rands == 0..(RandRange - 1)

\* ------------------------------------------------------------------- state
VARIABLES
    now,        \* Date.now()
    issued,     \* the uploadIds /upload/init has returned, in order
    manifests,  \* TMP_DIR/<uploadId>.json : uploadId -> manifest
    parts,      \* TMP_DIR/<uploadId>.part<chunkIndex> : <<uploadId, chunkIndex>> -> bytes
    inflight,   \* /upload/chunk requests multer has received, handler not yet run
    chunkReqs,  \* number of /upload/chunk requests received so far
    files,      \* UPLOAD_ROOT/<cat>/<finalName> : <<cat, time, fileName>> -> bytes
    tasks,      \* the background assemblies started by /upload/complete, in order
    resp        \* the response of the handler that ran last

vars == <<now, issued, manifests, parts, inflight, chunkReqs, files, tasks, resp>>

Range(s) == {s[i] : i \in 1..Len(s)}

\* The byte a hole of a sparse file reads as.
NUL == 0

\* What readJSON returns for a missing, empty or unparsable file.  No manifest
\* /upload/init writes equals it: init rejects an empty fileName.
null == [fileName |-> <<>>, totalChunks |-> 0, uploadedChunks |-> <<>>]

readJSON(uploadId) ==
    IF uploadId \in DOMAIN manifests THEN manifests[uploadId] ELSE null

\* A response: the route, the HTTP status, the error text (by a short name),
\* and the body fields uploadId, uploadedChunks and file where present.
Response(op, status, err, uploadId, chunks, file) ==
    [op |-> op, status |-> status, err |-> err, uploadId |-> uploadId,
     uploadedChunks |-> chunks, file |-> file]

NoResponse == Response("none", 0, "none", <<>>, <<>>, <<>>)

\* A directory with no entries.
EmptyDir == [n \in {} |-> <<>>]

Init ==
    /\ now = 0
    /\ issued = <<>>
    /\ manifests = EmptyDir
    /\ parts = EmptyDir
    /\ inflight = {}
    /\ chunkReqs = 0
    /\ files = EmptyDir
    /\ tasks = <<>>
    /\ resp = NoResponse

\* The clock advances.
Tick ==
    /\ now < MaxTime
    /\ now' = now + 1
    /\ UNCHANGED <<issued, manifests, parts, inflight, chunkReqs, files, tasks, resp>>

\* Adding or replacing one entry of a directory.
Put(dir, name, value) == [n \in DOMAIN dir \cup {name} |-> IF n = name THEN value ELSE dir[n]]

\* Removing one entry of a directory.
Unlink(dir, name) == [n \in DOMAIN dir \ {name} |-> dir[n]]

\* --------------------------------------------------------- /upload/init
\* Math.floor(Math.random() * 10000).  The value is used only as a part of the
\* uploadId, so a draw is, up to renaming, one of the values drawn before or
\* the least value not drawn yet.
RandomDraws ==
    {r \in Rands : r <= Cardinality({issued[i][2] : i \in 1..Len(issued)})}

CreateSession(fileName, totalChunks, rnd) ==
    /\ Len(issued) < MaxSessions
    /\ IF fileName = <<>> \/ totalChunks = 0
       THEN /\ resp' = Response("init", 400, "FieldsRequired", <<>>, <<>>, <<>>)
            /\ UNCHANGED <<issued, manifests>>
       ELSE LET uploadId == <<now, rnd>>
                manifest == [fileName |-> fileName,
                             totalChunks |-> parseInt(NumToString(totalChunks)),
                             uploadedChunks |-> <<>>]
            IN  /\ manifests' = Put(manifests, uploadId, manifest)
                /\ issued' = Append(issued, uploadId)
                /\ resp' = Response("init", 200, "none", uploadId, <<>>, <<>>)
    /\ UNCHANGED <<now, parts, inflight, chunkReqs, files, tasks>>

\* -------------------------------------------------------- /upload/chunk
\* multer (upload.single('chunk')) has stored the request's temporary file and
\* parsed its fields; the route handler runs later.  Each request has its own
\* temporary file, so a request waiting for its handler is the triple below:
\* req.body.uploadId, req.body.chunkIndex and req.file, a sequence holding the
\* bytes of the one temporary file.  The server only moves chunk bytes and
\* never looks at them, so the bytes of the k-th request received are the
\* one byte k: every request carries bytes no other request carries.
\* Clients send the uploadIds they were given.
ChunkReceive(uploadId, chunkIndex) ==
    /\ chunkReqs < MaxChunkReqs
    /\ uploadId \in Range(issued)
    /\ inflight' = inflight \cup
           {[uploadId |-> uploadId, chunkIndex |-> chunkIndex,
             file |-> << <<chunkReqs + 1>> >>]}
    /\ chunkReqs' = chunkReqs + 1
    /\ UNCHANGED <<now, issued, manifests, parts, files, tasks, resp>>

\* TMP_DIR/<uploadId>.part<chunkIndex>, chunkIndex as text.
PartPath(uploadId, chunkIndex) == <<uploadId, chunkIndex>>

\* AddChunk with the bug of replacing the list by the one index.
AddChunk_Overwrite(uploadedChunks, idx) == <<idx>>

\* AddChunk with the bug of pushing without the includes test.
AddChunk_AlwaysPush(uploadedChunks, idx) == Append(uploadedChunks, idx)

\* if (!uploadedChunks.includes(idx)) uploadedChunks.push(idx)
AddChunk(uploadedChunks, idx) ==
    IF idx \in Range(uploadedChunks) THEN uploadedChunks
    ELSE Append(uploadedChunks, idx)

\* The route handler of /upload/chunk, one synchronous block.
ChunkHandle(r) ==
    /\ r \in inflight
    /\ inflight' = inflight \ {r}
    /\ LET manifest == readJSON(r.uploadId)
       IN  IF r.uploadId = <<>> \/ r.chunkIndex = <<>>
           THEN /\ resp' = Response("chunk", 400, "FieldsRequired", r.uploadId, <<>>, <<>>)
                /\ UNCHANGED <<manifests, parts>>
           ELSE IF manifest = null
           THEN /\ resp' = Response("chunk", 400, "ManifestMissing", r.uploadId, <<>>, <<>>)
                /\ UNCHANGED <<manifests, parts>>
           ELSE IF r.file = <<>>
           THEN /\ resp' = Response("chunk", 400, "ChunkFileMissing", r.uploadId, <<>>, <<>>)
                /\ UNCHANGED <<manifests, parts>>
           ELSE LET idx     == parseInt(r.chunkIndex)
                    updated == [manifest EXCEPT
                                   !.uploadedChunks = AddChunk(manifest.uploadedChunks, idx)]
                IN  /\ parts' = Put(parts, PartPath(r.uploadId, r.chunkIndex), r.file[1])
                    /\ manifests' = Put(manifests, r.uploadId, updated)
                    /\ resp' = Response("chunk", 200, "none", r.uploadId,
                                        updated.uploadedChunks, <<>>)
    /\ UNCHANGED <<now, issued, chunkReqs, files, tasks>>

\* ------------------------------------------------------- /upload/status
GetStatus(uploadId) ==
    /\ uploadId \in Range(issued)
    /\ LET manifest == readJSON(uploadId)
       IN  resp' = IF manifest = null
                   THEN Response("status", 404, "UploadNotFound", uploadId, <<>>, <<>>)
                   ELSE Response("status", 200, "none", uploadId,
                                 manifest.uploadedChunks, <<>>)
    /\ UNCHANGED <<now, issued, manifests, parts, inflight, chunkReqs, files, tasks>>

\* ----------------------------------------------------- /upload/complete
\* CompletionError with the bug of leaving out the loop over the chunk files.
CompletionError_NoBlobCheck(uploadId, manifest) ==
    IF manifest = null THEN "ManifestMissing"
    ELSE IF Len(manifest.uploadedChunks) # manifest.totalChunks THEN "NotAllChunks"
    ELSE "none"

\* The checks of the handler before it starts the assembly: the error it
\* answers with, "none" when it goes on.
CompletionError(uploadId, manifest) ==
    IF manifest = null THEN "ManifestMissing"
    ELSE IF Len(manifest.uploadedChunks) # manifest.totalChunks THEN "NotAllChunks"
    ELSE IF \E i \in 1..manifest.totalChunks :
                PartPath(uploadId, NumToString(i)) \notin DOMAIN parts
         THEN "MissingChunkFile"
    ELSE "none"

\* path.join(UPLOAD_ROOT, cat, `${Date.now()}-${fileName}`)
FinalDest(time, fileName) == <<categoryForExt(extname(fileName)), time, fileName>>

\* The bytes of the chunk files 1..n of an upload that are on disk, in
\* ascending index order.
RECURSIVE ChunksInOrder(_, _)
ChunksInOrder(uploadId, n) ==
    IF n <= 0 THEN <<>>
    ELSE LET path == PartPath(uploadId, NumToString(n))
         IN  ChunksInOrder(uploadId, n - 1) \o
                 (IF path \in DOMAIN parts THEN parts[path] ELSE <<>>)

\* The assembly as the handler leaves it: the write stream created but not yet
\* open, the loop at i = 1.  validated is what the verification loop found on
\* disk, in index order.
NewTask(uploadId, manifest, dest) ==
    [uploadId |-> uploadId, dest |-> dest, totalChunks |-> manifest.totalChunks,
     i |-> 1, phase |-> "read", opened |-> FALSE, pos |-> 0, buf |-> <<>>,
     validated |-> ChunksInOrder(uploadId, manifest.totalChunks)]

\* The route handler of /upload/complete, one synchronous block: it starts
\* the assembly without awaiting it, unlinks the manifest and answers.
CompleteHandle(uploadId) ==
    /\ uploadId \in Range(issued)
    /\ LET manifest == readJSON(uploadId)
           err      == CompletionError(uploadId, manifest)
           dest     == FinalDest(now, manifest.fileName)
       IN  IF err # "none"
           THEN /\ resp' = Response("complete", 400, err, uploadId, <<>>, <<>>)
                /\ UNCHANGED <<manifests, tasks>>
           ELSE /\ tasks' = Append(tasks, NewTask(uploadId, manifest, dest))
                /\ manifests' = Unlink(manifests, uploadId)
                /\ resp' = Response("complete", 200, "none", uploadId, <<>>, dest)
    /\ UNCHANGED <<now, issued, parts, inflight, chunkReqs, files>>

\* ------------------------------------------------- background assembly
\* fs.write at a position: bytes beyond the end leave a hole.
WriteAt(content, pos, bytes) ==
    LET len == IF Len(content) > pos + Len(bytes) THEN Len(content) ELSE pos + Len(bytes)
    IN  [k \in 1..len |->
            IF k > pos /\ k <= pos + Len(bytes) THEN bytes[k - pos]
            ELSE IF k <= Len(content) THEN content[k]
            ELSE NUL]

\* fs.createWriteStream(finalDest) opens the file: created, or truncated.
AsmOpen(k) ==
    /\ k \in 1..Len(tasks)
    /\ ~tasks[k].opened
    /\ files' = Put(files, tasks[k].dest, <<>>)
    /\ tasks' = [tasks EXCEPT ![k].opened = TRUE]
    /\ UNCHANGED <<now, issued, manifests, parts, inflight, chunkReqs, resp>>

\* fs.createReadStream(chunkPath) piped into the write stream: the chunk's
\* bytes are handed to the write stream; a missing chunk file is the read
\* stream's 'error', which rejects the loop for good.
AsmRead(k) ==
    /\ k \in 1..Len(tasks)
    /\ tasks[k].phase = "read"
    /\ LET t    == tasks[k]
           path == PartPath(t.uploadId, NumToString(t.i))
       IN  tasks' = IF path \in DOMAIN parts
                    THEN [tasks EXCEPT ![k].buf = t.buf \o parts[path],
                                       ![k].phase = "piped"]
                    ELSE [tasks EXCEPT ![k].phase = "failed"]
    /\ UNCHANGED <<now, issued, manifests, parts, inflight, chunkReqs, files, resp>>

\* The write stream writes what it holds at its own file position.
AsmFlush(k) ==
    /\ k \in 1..Len(tasks)
    /\ tasks[k].opened
    /\ tasks[k].buf # <<>>
    /\ LET t == tasks[k]
       IN  /\ files' = Put(files, t.dest, WriteAt(files[t.dest], t.pos, t.buf))
           /\ tasks' = [tasks EXCEPT ![k].pos = t.pos + Len(t.buf), ![k].buf = <<>>]
    /\ UNCHANGED <<now, issued, manifests, parts, inflight, chunkReqs, resp>>

\* The loop's next index after chunk i: i + 1, or the end of the loop.
NextPhase(t) ==
    IF t.i < t.totalChunks
    THEN [t EXCEPT !.i = t.i + 1, !.phase = "read"]
    ELSE [t EXCEPT !.phase = "ending"]

\* The read stream's 'end': fs.unlinkSync(chunkPath), then the next chunk, or
\* writeStream.end() after the last.  unlinkSync of a missing file throws.
AsmEndChunk(k) ==
    /\ k \in 1..Len(tasks)
    /\ tasks[k].phase = "piped"
    /\ LET t    == tasks[k]
           path == PartPath(t.uploadId, NumToString(t.i))
       IN  IF path \in DOMAIN parts
           THEN /\ parts' = Unlink(parts, path)
                /\ tasks' = [tasks EXCEPT ![k] = NextPhase(t)]
           ELSE /\ tasks' = [tasks EXCEPT ![k].phase = "failed"]
                /\ UNCHANGED parts
    /\ UNCHANGED <<now, issued, manifests, inflight, chunkReqs, files, resp>>

\* The ended write stream has written everything and closes.
AsmClose(k) ==
    /\ k \in 1..Len(tasks)
    /\ tasks[k].phase = "ending"
    /\ tasks[k].opened
    /\ tasks[k].buf = <<>>
    /\ tasks' = [tasks EXCEPT ![k].phase = "closed"]
    /\ UNCHANGED <<now, issued, manifests, parts, inflight, chunkReqs, files, resp>>

\* ---------------------------------------------------------------- /files
\* readdirSync of every category directory.
ListFiles == {[name |-> <<d[2], d[3]>>, category |-> d[1]] : d \in DOMAIN files}

\* ------------------------------------------------------------ behaviours
Next ==
    \/ Tick
    \/ \E f \in FileNameInputs, n \in TotalChunksInputs, rnd \in RandomDraws :
           CreateSession(f, n, rnd)
    \/ \E u \in Range(issued), c \in ChunkIndexInputs : ChunkReceive(u, c)
    \/ \E r \in inflight : ChunkHandle(r)
    \/ \E u \in Range(issued) : GetStatus(u)
    \/ \E u \in Range(issued) : CompleteHandle(u)
    \/ \E k \in 1..Len(tasks) : AsmOpen(k)
    \/ \E k \in 1..Len(tasks) : AsmRead(k)
    \/ \E k \in 1..Len(tasks) : AsmFlush(k)
    \/ \E k \in 1..Len(tasks) : AsmEndChunk(k)
    \/ \E k \in 1..Len(tasks) : AsmClose(k)

Spec == Init /\ [][Next]_vars

\* ------------------------------------------------------------ properties
\* The upload's manifest file exists.
Live(uploadId) == uploadId \in DOMAIN manifests

\* C1: whenever the assembly of a completed upload has finished, the stored
\* file holds exactly chunk 1 ++ ... ++ chunk n of that upload, whatever the
\* order the chunks were registered in.
C1_AssembledInIndexOrder ==
    \A k \in 1..Len(tasks) :
        tasks[k].phase = "closed" => files[tasks[k].dest] = tasks[k].validated

C3_UploadedChunksInRange ==
    \A u \in DOMAIN manifests :
        Range(manifests[u].uploadedChunks) \subseteq 1..manifests[u].totalChunks

\* C4: while the assembly of an upload has started and has not finished (or
\* has failed), the upload's manifest still exists.
C4_ManifestKeptUntilPlaced ==
    \A k \in 1..Len(tasks) : tasks[k].phase # "closed" => Live(tasks[k].uploadId)

\* C5: every file visible under its final name holds the full concatenation
\* of its upload's chunks, and so does the file a successful
\* /upload/complete response names, at the moment of the response.
C5_NoPartialFileVisible ==
    /\ \A d \in DOMAIN files :
          \E k \in 1..Len(tasks) : tasks[k].dest = d /\ files[d] = tasks[k].validated
    /\ (resp.op = "complete" /\ resp.status = 200) =>
          /\ resp.file \in DOMAIN files
          /\ \E k \in 1..Len(tasks) :
                tasks[k].dest = resp.file /\ files[resp.file] = tasks[k].validated

C7_CompletionValidated ==
    [][\A u \in Range(issued) :
          (CompleteHandle(u) /\ Live(u)) =>
              LET m       == manifests[u]
                  missing == \E i \in 1..m.totalChunks :
                                 PartPath(u, NumToString(i)) \notin DOMAIN parts
              IN  /\ Len(m.uploadedChunks) < m.totalChunks =>
                        /\ resp'.status = 400 /\ resp'.err = "NotAllChunks"
                        /\ UNCHANGED <<tasks, manifests, parts, files>>
                  /\ (Len(m.uploadedChunks) = m.totalChunks /\ missing) =>
                        /\ resp'.status = 400 /\ resp'.err = "MissingChunkFile"
                        /\ UNCHANGED <<tasks, manifests, parts, files>>]_vars

\* C7 witness: /upload/complete has just answered "Missing chunk file" for a
\* live session whose manifest lists as many indices as totalChunks.
C7_Witness ==
    /\ resp.op = "complete" /\ resp.err = "MissingChunkFile"
    /\ Live(resp.uploadId)
    /\ Len(manifests[resp.uploadId].uploadedChunks) = manifests[resp.uploadId].totalChunks

\* C8: every uploadId /upload/init returns differs from every uploadId it
\* returned before.
C8_FreshSessionId ==
    \A i, j \in 1..Len(issued) : i # j => issued[i] # issued[j]

\* C9: two uploads with different uploadIds never get the same final path.
C9_DistinctFinalPaths ==
    \A j, k \in 1..Len(tasks) :
        tasks[j].uploadId # tasks[k].uploadId => tasks[j].dest # tasks[k].dest

\* C10: once /upload/complete has succeeded for an uploadId, no manifest of
\* that uploadId exists again (so status, chunk and complete requests on it
\* fail as not found), and the uploadId is completed at most once.
C10_CompletedSessionStaysGone ==
    /\ \A k \in 1..Len(tasks) : ~Live(tasks[k].uploadId)
    /\ \A j, k \in 1..Len(tasks) : j # k => tasks[j].uploadId # tasks[k].uploadId

\* An assembly of the upload has been started and has neither finished nor
\* failed.
Assembling(uploadId) ==
    \E k \in 1..Len(tasks) :
        tasks[k].uploadId = uploadId /\ tasks[k].phase \notin {"closed", "failed"}

\* C11: while an assembly of an upload is in progress, every /upload/chunk
\* handler that runs for that uploadId is rejected and leaves every chunk file
\* as it was.
C11_ChunkRejectedMidAssembly ==
    [][\A r \in inflight :
          (ChunkHandle(r) /\ Assembling(r.uploadId)) =>
              resp'.status = 400 /\ parts' = parts]_vars

\* The bytes of chunk j of assembly t are in the destination file.  Every
\* chunk here is one byte long, so chunk j belongs at offset j - 1.
Appended(t, j) ==
    /\ t.dest \in DOMAIN files
    /\ Len(files[t.dest]) >= j
    /\ j <= Len(t.validated)
    /\ files[t.dest][j] = t.validated[j]

\* C12: while an assembly runs, every chunk index whose bytes are not yet in
\* the destination file still has its chunk file in TMP_DIR.
C12_DeleteAfterAppend ==
    \A k \in 1..Len(tasks) :
        tasks[k].phase # "closed" =>
            \A j \in 1..tasks[k].totalChunks :
                Appended(tasks[k], j) \/
                PartPath(tasks[k].uploadId, NumToString(j)) \in DOMAIN parts

\* C13: /upload/init creates no manifest for an empty fileName or a
\* totalChunks that is not a positive integer, so every manifest on disk has
\* totalChunks >= 1.
C13_TotalChunksPositive ==
    \A u \in DOMAIN manifests :
        manifests[u].fileName # <<>> /\ manifests[u].totalChunks >= 1

\* C14: for every live session, /upload/status answers with the manifest's
\* uploadedChunks, which lists no index twice, and as long as the session
\* stays live the list changes only by a successful /upload/chunk of that
\* session appending its index: the list is exactly the distinct indices
\* registered so far and only grows.
C14_StatusExactAndGrowing ==
    [][\A u \in DOMAIN manifests :
          LET old == manifests[u].uploadedChunks
          IN  /\ Cardinality(Range(old)) = Len(old)
              /\ GetStatus(u) => resp'.status = 200 /\ resp'.uploadedChunks = old
              /\ u \in DOMAIN manifests' =>
                    \/ manifests'[u].uploadedChunks = old
                    \/ \E r \in inflight :
                          /\ ChunkHandle(r) /\ r.uploadId = u /\ resp'.status = 200
                          /\ parseInt(r.chunkIndex) \notin Range(old)
                          /\ manifests'[u].uploadedChunks =
                                 Append(old, parseInt(r.chunkIndex))]_vars

\* C15: the path a successful /upload/complete answers with lies in the
\* category of the extension of the upload's fileName, one of CATEGORIES, and
\* from that response on /files lists the file under that category.
C15_StoredUnderCategoryAndListed ==
    \A k \in 1..Len(tasks) :
        LET d == tasks[k].dest
        IN  /\ d[1] = categoryForExt(extname(d[3]))
            /\ d[1] \in CATEGORIES
            /\ [name |-> <<d[2], d[3]>>, category |-> d[1]] \in ListFiles

\* The step is an operation on a session other than the one /upload/init
\* created under uploadId u: a new session is created, or a handler or an
\* assembly step runs for another uploadId.
OnAnotherSession(u) ==
    \/ issued' # issued
    \/ \E r \in inflight : r.uploadId # u /\ ChunkHandle(r)
    \/ \E v \in Range(issued) \ {u} : GetStatus(v) \/ CompleteHandle(v)
    \/ \E k \in 1..Len(tasks) :
          /\ tasks[k].uploadId # u
          /\ AsmOpen(k) \/ AsmRead(k) \/ AsmFlush(k) \/ AsmEndChunk(k) \/ AsmClose(k)

\* The chunk files of upload u in a TMP_DIR listing.
PartsOf(dir, u) == {p \in DOMAIN dir : p[1] = u}

\* C16: an operation on one session leaves the manifest and the chunk files
\* of every other live session as they were.
C16_SessionsIndependent ==
    [][\A u \in DOMAIN manifests :
          OnAnotherSession(u) =>
              /\ u \in DOMAIN manifests' /\ manifests'[u] = manifests[u]
              /\ PartsOf(parts', u) = PartsOf(parts, u)
              /\ \A p \in PartsOf(parts, u) : parts'[p] = parts[p]]_vars

\* /upload/complete would fail for the live upload u, and chunk j is the only
\* chunk of 1..totalChunks that is not both listed and on disk.
OnlyMissing(u, j) ==
    LET m == manifests[u]
    IN  /\ j \in 1..m.totalChunks
        /\ CompletionError(u, m) \in {"NotAllChunks", "MissingChunkFile"}
        /\ \A i \in (1..m.totalChunks) \ {j} :
              /\ i \in Range(m.uploadedChunks)
              /\ PartPath(u, NumToString(i)) \in DOMAIN parts

\* C17: an /upload/complete that fails on a live session changes nothing on
\* disk, and when one chunk is all that is missing, registering that chunk
\* makes the next /upload/complete succeed.
C17_FailedCompleteRecoverable ==
    [][\A u \in DOMAIN manifests :
          /\ (CompleteHandle(u) /\ resp'.status = 400) =>
                UNCHANGED <<manifests, parts, files, tasks>>
          /\ \A r \in inflight :
                ( /\ ChunkHandle(r) /\ r.uploadId = u
                  /\ r.chunkIndex = NumToString(parseInt(r.chunkIndex))
                  /\ OnlyMissing(u, parseInt(r.chunkIndex)) ) =>
                    /\ u \in DOMAIN manifests'
                    /\ CompletionError(u, manifests[u])' = "none"]_vars

\* C18: for a live session whose manifest lists every index 1..totalChunks
\* and whose chunk files 1..totalChunks are on disk, /upload/complete passes
\* its checks, whatever else the manifest lists.
C18_CompleteWhenAllRegistered ==
    \A u \in DOMAIN manifests :
        LET m == manifests[u]
        IN  ( /\ m.totalChunks >= 1
              /\ (1..m.totalChunks) \subseteq Range(m.uploadedChunks)
              /\ \A i \in 1..m.totalChunks :
                    PartPath(u, NumToString(i)) \in DOMAIN parts ) =>
                CompletionError(u, m) = "none"

\* The event loop runs every callback that is ready: each step of each
\* assembly that can be taken is eventually taken.
AsmFairness ==
    \A k \in 1..MaxSessions :
        /\ WF_vars(AsmOpen(k))
        /\ WF_vars(AsmRead(k))
        /\ WF_vars(AsmFlush(k))
        /\ WF_vars(AsmEndChunk(k))
        /\ WF_vars(AsmClose(k))

FairSpec == Init /\ [][Next]_vars /\ AsmFairness

\* The k-th assembly has terminated well: the write stream is closed, the
\* stored file holds the chunks 1..n validated, and neither a chunk file 1..n
\* nor the manifest of the upload is left in TMP_DIR.
AssembledClean(k) ==
    /\ k <= Len(tasks)
    /\ tasks[k].phase = "closed"
    /\ tasks[k].dest \in DOMAIN files
    /\ files[tasks[k].dest] = tasks[k].validated
    /\ \A i \in 1..tasks[k].totalChunks :
          PartPath(tasks[k].uploadId, NumToString(i)) \notin DOMAIN parts
    /\ ~Live(tasks[k].uploadId)

\* C19: every assembly /upload/complete has started eventually terminates
\* well.
C19_AssemblyTerminatesClean ==
    \A k \in 1..MaxSessions : (k <= Len(tasks)) ~> AssembledClean(k)

\* C20: for a live session no assembly was started for, every index the
\* manifest lists has its chunk file <uploadId>.part<index> in TMP_DIR.
C20_RecordedIndexHasBlob ==
    \A u \in DOMAIN manifests :
        (\A k \in 1..Len(tasks) : tasks[k].uploadId # u) =>
            \A idx \in Range(manifests[u].uploadedChunks) :
                PartPath(u, NumToString(idx)) \in DOMAIN parts

\* ------------------------------------------------ server.js: /upload-chunk
\* server.js is a second server over the same directory layout, without
\* manifests.  Its behaviours are those of ServerSpec below, in which
\*   parts    is TMP_DIR by full file name (a text) -> bytes,
\*   files    is UPLOAD_ROOT/<cat>/<finalName> as before,
\*   inflight holds the /upload-chunk requests multer has received,
\*   tasks    holds the write streams the handler has created,
\* and issued and manifests stay empty.
dotPart == <<".", "p", "a", "r", "t">>

\* `${fileName}.part${chunkIndex}`
chunkDestName(fileName, chunkIndex) == fileName \o dotPart \o chunkIndex

\* String.prototype.startsWith
startsWith(s, prefix) ==
    Len(s) >= Len(prefix) /\ SubSeq(s, 1, Len(prefix)) = prefix

\* The positions at which '.part' occurs in s.
DotPartAt(s) == {i \in 1..Len(s) : startsWith(SubSeq(s, i, Len(s)), dotPart)}

\* s.split('.part')[1]: the text between the first '.part' and the next one,
\* or the end.  Used on names that hold '.part'.
SplitPart1(s) ==
    LET first == CHOOSE i \in DotPartAt(s) : \A j \in DotPartAt(s) : i <= j
        rest  == SubSeq(s, first + Len(dotPart), Len(s))
        more  == DotPartAt(rest)
    IN  IF more = {} THEN rest
        ELSE SubSeq(rest, 1, (CHOOSE i \in more : \A j \in more : i <= j) - 1)

\* The sort key of a part name.
PartIndex(name) == parseInt(SplitPart1(name))

\* The orders parts.sort(...) can leave the names in: ascending by sort key;
\* names with equal keys keep the order readdirSync gave them, which the
\* file system chooses.
SortedOrders(names) ==
    {ord \in [1..Cardinality(names) -> names] :
        /\ \A i, j \in 1..Cardinality(names) : i # j => ord[i] # ord[j]
        /\ \A i, j \in 1..Cardinality(names) :
              i < j => PartIndex(ord[i]) <= PartIndex(ord[j])}

\* The bytes of the files of dir named by ord, one after the other.
RECURSIVE Concat(_, _, _)
Concat(dir, ord, n) ==
    IF n = 0 THEN <<>> ELSE Concat(dir, ord, n - 1) \o dir[ord[n]]

\* totalChunks as the text of the multipart field; empty when absent.
TotalChunksTexts == {<<>>} \cup {NumToString(n) : n \in 1..MaxTotal}

\* parseInt(totalChunks || 1, 10)
expected(totalChunks) == IF totalChunks = <<>> THEN 1 ELSE parseInt(totalChunks)

\* The response of /upload-chunk: status, error, and the body fields
\* assembled, partsReceived and file.
ServerResponse(status, err, assembled, partsReceived, file) ==
    [op |-> "upload-chunk", status |-> status, err |-> err,
     assembled |-> assembled, partsReceived |-> partsReceived, file |-> file]

ServerInit ==
    /\ now = 0
    /\ issued = <<>>
    /\ manifests = EmptyDir
    /\ parts = EmptyDir
    /\ inflight = {}
    /\ chunkReqs = 0
    /\ files = EmptyDir
    /\ tasks = <<>>
    /\ resp = ServerResponse(0, "none", FALSE, 0, <<>>)

\* multer has stored the temporary file of an /upload-chunk request and
\* parsed its fields; the k-th request received carries the one byte k.
ServerChunkReceive(fileName, totalChunks, chunkIndex) ==
    /\ chunkReqs < MaxChunkReqs
    /\ inflight' = inflight \cup
           {[fileName |-> fileName, totalChunks |-> totalChunks,
             chunkIndex |-> chunkIndex, file |-> << <<chunkReqs + 1>> >>]}
    /\ chunkReqs' = chunkReqs + 1
    /\ UNCHANGED <<now, issued, manifests, parts, files, tasks, resp>>

\* The names in a TMP_DIR listing that start with fileName + '.part'.
PartsList(dir, fileName) ==
    {n \in DOMAIN dir : startsWith(n, fileName \o dotPart)}

\* Removing several entries of a directory.
UnlinkAll(dir, names) == [n \in DOMAIN dir \ names |-> dir[n]]

\* A write stream on TMP_DIR/<tmpName> holding data it has not written yet.
\* at says where the file it has open is: "unopened", "tmp" (under tmpName
\* in TMP_DIR), "final" (moved to dest) or "gone" (replaced by another file).
WriteStream(tmpName, data, at, dest) ==
    [tmpName |-> tmpName, dest |-> dest, at |-> at, pos |-> 0, buf |-> data,
     closed |-> FALSE]

\* fs.renameSync(assembledPath, finalDest) as the open write streams see it:
\* a stream keeps the file it has open, wherever the file's name goes.
Renamed(streams, tmpName, dest) ==
    [k \in 1..Len(streams) |->
        IF streams[k].at = "tmp" /\ streams[k].tmpName = tmpName
        THEN [streams[k] EXCEPT !.at = "final", !.dest = dest]
        ELSE IF streams[k].at = "final" /\ streams[k].dest = dest
        THEN [streams[k] EXCEPT !.at = "gone"]
        ELSE streams[k]]

\* The route handler of /upload-chunk, one synchronous block.  The write
\* stream opens its file asynchronously: depending on the Node release the
\* open is issued to the thread pool inside createWriteStream, and may have
\* created the file by the time renameSync runs (openedEarly), or is issued
\* only after the handler has returned.
UploadChunk(r, openedEarly) ==
    /\ r \in inflight
    /\ inflight' = inflight \ {r}
    /\ IF r.fileName = <<>>
       THEN /\ resp' = ServerResponse(400, "fileName required", FALSE, 0, <<>>)
            /\ UNCHANGED <<parts, files, tasks>>
       ELSE IF r.file = <<>>
       THEN /\ resp' = ServerResponse(400, "Chunk file missing", FALSE, 0, <<>>)
            /\ UNCHANGED <<parts, files, tasks>>
       ELSE
         LET stored   == Put(parts, chunkDestName(r.fileName, r.chunkIndex), r.file[1])
             list     == PartsList(stored, r.fileName)
             finalDest == FinalDest(now, r.fileName)
         IN  IF Cardinality(list) # expected(r.totalChunks)
             THEN /\ parts' = stored
                  /\ resp' = ServerResponse(200, "none", FALSE, Cardinality(list), <<>>)
                  /\ UNCHANGED <<files, tasks>>
             ELSE \E ord \in SortedOrders(list) :
                  LET data     == Concat(stored, ord, Cardinality(list))
                      unlinked == UnlinkAll(stored, list)
                      tmp      == IF openedEarly THEN Put(unlinked, r.fileName, <<>>)
                                  ELSE unlinked
                      stream   == WriteStream(r.fileName, data,
                                      IF openedEarly THEN "tmp" ELSE "unopened",
                                      finalDest)
                      streams  == Append(tasks, stream)
                  IN  IF r.fileName \in DOMAIN tmp
                      THEN /\ files' = Put(files, finalDest, tmp[r.fileName])
                           /\ parts' = Unlink(tmp, r.fileName)
                           /\ tasks' = Renamed(streams, r.fileName, finalDest)
                           /\ resp' = ServerResponse(200, "none", TRUE, 0, finalDest)
                      ELSE /\ parts' = tmp
                           /\ tasks' = streams
                           /\ resp' = ServerResponse(500, "ENOENT", FALSE, 0, <<>>)
                           /\ UNCHANGED files
    /\ UNCHANGED <<now, issued, manifests, chunkReqs>>

\* The write stream's open completes: TMP_DIR/<tmpName> is created, or
\* truncated.
WsOpen(k) ==
    /\ k \in 1..Len(tasks)
    /\ tasks[k].at = "unopened"
    /\ parts' = Put(parts, tasks[k].tmpName, <<>>)
    /\ tasks' = [tasks EXCEPT ![k].at = "tmp"]
    /\ UNCHANGED <<now, issued, manifests, inflight, chunkReqs, files, resp>>

\* The write stream writes the next chunk it holds, at its own position, to
\* the file it has open.
WsWrite(k) ==
    /\ k \in 1..Len(tasks)
    /\ tasks[k].at \in {"tmp", "final", "gone"}
    /\ tasks[k].buf # <<>>
    /\ LET s     == tasks[k]
           bytes == <<Head(s.buf)>>
       IN  /\ tasks' = [tasks EXCEPT ![k].pos = s.pos + 1, ![k].buf = Tail(s.buf)]
           /\ parts' = IF s.at = "tmp" /\ s.tmpName \in DOMAIN parts
                       THEN Put(parts, s.tmpName, WriteAt(parts[s.tmpName], s.pos, bytes))
                       ELSE parts
           /\ files' = IF s.at = "final" /\ s.dest \in DOMAIN files
                       THEN Put(files, s.dest, WriteAt(files[s.dest], s.pos, bytes))
                       ELSE files
    /\ UNCHANGED <<now, issued, manifests, inflight, chunkReqs, resp>>

\* The ended write stream has written everything and closes.
WsClose(k) ==
    /\ k \in 1..Len(tasks)
    /\ tasks[k].at # "unopened"
    /\ tasks[k].buf = <<>>
    /\ ~tasks[k].closed
    /\ tasks' = [tasks EXCEPT ![k].closed = TRUE]
    /\ UNCHANGED <<now, issued, manifests, parts, inflight, chunkReqs, files, resp>>

ServerNext ==
    \/ Tick
    \/ \E f \in FileNameInputs, n \in TotalChunksTexts, c \in ChunkIndexInputs :
           ServerChunkReceive(f, n, c)
    \/ \E r \in inflight, openedEarly \in BOOLEAN : UploadChunk(r, openedEarly)
    \/ \E k \in 1..Len(tasks) : WsOpen(k)
    \/ \E k \in 1..Len(tasks) : WsWrite(k)
    \/ \E k \in 1..Len(tasks) : WsClose(k)

ServerSpec == ServerInit /\ [][ServerNext]_vars

\* C21: when the /upload-chunk handler of server.js stores a part that makes
\* the number of parts of fileName equal to totalChunks, it answers
\* assembled: true with a file path and the file at that path holds the parts
\* concatenated in ascending part index; and a handler that removes parts
\* has placed that file.
C21_LegacyAssemblesAndPlaces ==
    [][\A r \in inflight : \A openedEarly \in BOOLEAN :
          (UploadChunk(r, openedEarly) /\ r.fileName # <<>> /\ r.file # <<>>) =>
              LET stored == Put(parts, chunkDestName(r.fileName, r.chunkIndex), r.file[1])
                  list   == PartsList(stored, r.fileName)
                  placed == /\ resp'.status = 200 /\ resp'.assembled
                            /\ resp'.file \in DOMAIN files'
              IN  /\ Cardinality(list) = expected(r.totalChunks) =>
                        /\ placed
                        /\ \E ord \in SortedOrders(list) :
                              files'[resp'.file] = Concat(stored, ord, Cardinality(list))
                  /\ (\E n \in list : n \notin DOMAIN parts') => placed]_vars

====
